---- MODULE Spec2Model ----
(***************************************************************************)
(* Model of lsst.obs.decam.ingestCalibs.DecamCalibsParseTask.              *)
(*                                                                         *)
(* Python strings are sequences of one-character strings, so that         *)
(* substring tests, str.find, str.lower, str.strip and the two regular     *)
(* expressions of the module are computed character by character.          *)
(* Python values that may have several types (header values, dict values,  *)
(* return values) are tagged records of one uniform shape.                 *)
(* One call of one method is one action; its arguments and the answers of  *)
(* the external collaborators (base parser, butler, file classifier) are   *)
(* drawn from bounded sets.                                                *)
(***************************************************************************)
EXTENDS Integers, Sequences, FiniteSets, TLC

\* ------------------------------------------------------------------------
\* Bounds of the model
\* ------------------------------------------------------------------------
MaxExt == 2          \* extension records returned by the base parser
MaxNamePieces == 2   \* pieces a filename is assembled from
MaxTokens == 2       \* key=value tokens in a CALIB_ID string
MaxKindPieces == 2   \* pieces a calibration-kind label is assembled from
MaxCands == 2        \* candidate paths returned by one butler lookup

\* ------------------------------------------------------------------------
\* Python values
\* ------------------------------------------------------------------------
PyInt(n) == [t |-> "int", i |-> n, s |-> <<>>, l |-> <<>>]
PyStr(str) == [t |-> "str", i |-> 0, s |-> str, l |-> <<>>]
PyList(lst) == [t |-> "list", i |-> 0, s |-> <<>>, l |-> lst]
PyNone == [t |-> "none", i |-> 0, s |-> <<>>, l |-> <<>>]

\* How a call ends: a returned value or a propagated exception.
Return(v) == [kind |-> "return", value |-> v, exc |-> "none"]
Raise(e) == [kind |-> "raise", value |-> PyNone, exc |-> e]
NoResult == [kind |-> "pending", value |-> PyNone, exc |-> "none"]

\* ------------------------------------------------------------------------
\* String primitives
\* ------------------------------------------------------------------------
Digits == {"0","1","2","3","4","5","6","7","8","9"}
Whitespace == {" ", "\t", "\n", "\r", "\f"}
Uppers == <<"A","B","C","D","E","F","G","H","I","J","K","L","M",
            "N","O","P","Q","R","S","T","U","V","W","X","Y","Z">>
Lowers == <<"a","b","c","d","e","f","g","h","i","j","k","l","m",
            "n","o","p","q","r","s","t","u","v","w","x","y","z">>

LowerChar(c) ==
    IF \E k \in 1..26 : Uppers[k] = c
    THEN Lowers[CHOOSE k \in 1..26 : Uppers[k] = c]
    ELSE c

\* str.lower()
Lower(str) == [k \in 1..Len(str) |-> LowerChar(str[k])]

\* str.strip(): drop leading and trailing whitespace
Strip(str) ==
    LET keep == {k \in 1..Len(str) : str[k] \notin Whitespace}
    IN IF keep = {} THEN <<>>
       ELSE SubSeq(str, CHOOSE a \in keep : \A b \in keep : a <= b,
                        CHOOSE a \in keep : \A b \in keep : a >= b)

\* sub in str
Contains(sub, str) ==
    \E k \in 0..(Len(str) - Len(sub)) : SubSeq(str, k + 1, k + Len(sub)) = sub

\* str.find(sub): lowest 0-based index of sub in str, -1 when there is none
Find(str, sub) ==
    LET at == {k \in 0..(Len(str) - Len(sub)) : SubSeq(str, k + 1, k + Len(sub)) = sub}
    IN IF at = {} THEN -1 ELSE CHOOSE a \in at : \A b \in at : a <= b

\* str[:c] for c >= 0
Prefix(str, c) == SubSeq(str, 1, c)

\* the truth value of a Python string: the empty string is false
Truthy(str) == str # <<>>

\* a or b, on strings: a when a is true, b otherwise
PyOr(a, b) == IF Truthy(a) THEN a ELSE b

\* ------------------------------------------------------------------------
\* re.search(r'(\d\d\d\d-\d\d-\d\d)', str)
\* ------------------------------------------------------------------------
\* the pattern matches at 0-based offset k
DateAt(str, k) ==
    /\ k + 10 <= Len(str)
    /\ \A j \in {1, 2, 3, 4, 6, 7, 9, 10} : str[k + j] \in Digits
    /\ str[k + 5] = "-"
    /\ str[k + 8] = "-"

\* The groups of the leftmost match, <<>> when the search returns None.
ReSearchDate(str) ==
    LET at == {k \in 0..(Len(str) - 10) : DateAt(str, k)}
    IN IF at = {} THEN <<>>
       ELSE LET first == CHOOSE a \in at : \A b \in at : a <= b
            IN <<SubSeq(str, first + 1, first + 10)>>

\* ------------------------------------------------------------------------
\* re.search(r".*%s=(\S+)" % field, data)
\* ------------------------------------------------------------------------
\* 0-based offsets k at which "field=" starts and is followed by at least one
\* non-whitespace character, reachable from search start s through ".*"
\* ("." does not match a newline).
FieldAt(field, data, s) ==
    LET pat == field \o <<"=">>
    IN {k \in s..(Len(data) - Len(pat) - 1) :
           /\ SubSeq(data, k + 1, k + Len(pat)) = pat
           /\ data[k + Len(pat) + 1] \notin Whitespace
           /\ \A j \in (s + 1)..k : data[j] # "\n"}

\* The groups of the match, <<>> when the search returns None.  The search
\* takes the leftmost start that matches; ".*" is greedy, so "field=" is
\* taken at its last possible offset; "\S+" is greedy, so the group runs to
\* the next whitespace or to the end of the string.
ReSearchField(field, data) ==
    LET starts == {s \in 0..Len(data) : FieldAt(field, data, s) # {}}
    IN IF starts = {} THEN <<>>
       ELSE LET s0 == CHOOSE a \in starts : \A b \in starts : a <= b
                at == FieldAt(field, data, s0)
                k == CHOOSE a \in at : \A b \in at : a >= b
                from == k + Len(field) + 2
                ends == {e \in from..Len(data) :
                            \A j \in from..e : data[j] \notin Whitespace}
                to == CHOOSE a \in ends : \A b \in ends : a >= b
            IN <<SubSeq(data, from, to)>>

\* ------------------------------------------------------------------------
\* Header metadata (lsst.daf.base.PropertySet): a function from the names of
\* the cards that are present to their values.
\* ------------------------------------------------------------------------
S_unknown == <<"u","n","k","n","o","w","n">>
S_NONE == <<"N","O","N","E">>
S_zero == <<"z","e","r","o">>
S_flat == <<"f","l","a","t">>
S_bias == <<"b","i","a","s">>
S_illumcor == <<"i","l","l","u","m","c","o","r">>
S_ccdnum == <<"c","c","d","n","u","m">>
S_calibDate == <<"c","a","l","i","b","D","a","t","e">>
S_filter == <<"f","i","l","t","e","r">>

\* md.exists(name)
Exists(md, name) == name \in DOMAIN md

\* What a translator does: its outcome, the warnings it logs, the calls it
\* makes to _translateFromCalibId (each with the field asked for and whether
\* CALIB_ID was in the header at that moment), and the calls it makes to the
\* base class's translator.
Effects(res, warns, idCalls, base) ==
    [result |-> res, warnings |-> warns, calibIdCalls |-> idCalls, baseCalls |-> base]

\* DecamCalibsParseTask._translateFromCalibId(field, md).
\* md.getScalar raises when the card is absent; match.groups() raises
\* AttributeError when the search returned None.
translateFromCalibId(field, md) ==
    IF ~Exists(md, "CALIB_ID") THEN Raise("KeyError")
    ELSE LET data == md["CALIB_ID"].s
             match == ReSearchField(field, data)
         IN IF match = <<>> THEN Raise("AttributeError")
            ELSE Return(PyStr(match[1]))

\* isinstance(v, collections.abc.Sequence)
IsSequence(v) == v.t \in {"list", "str"}

\* v[0] of a sequence value
FirstOf(v) == IF v.t = "list" THEN PyInt(v.l[1]) ELSE PyStr(<<v.s[1]>>)

SeqLen(v) == IF v.t = "list" THEN Len(v.l) ELSE Len(v.s)

\* DecamCalibsParseTask.translate_ccdnum(md)
translate_ccdnum(md) ==
    IF Exists(md, "CCDNUM")
    THEN LET ccdnum == md["CCDNUM"]
         IN IF IsSequence(ccdnum)
            THEN Effects(Return(IF SeqLen(ccdnum) > 0 THEN FirstOf(ccdnum) ELSE PyNone),
                         <<>>, <<>>, 0)
            ELSE Effects(Return(ccdnum), <<>>, <<>>, 0)
    ELSE Effects(translateFromCalibId(S_ccdnum, md), <<>>,
                 <<[field |-> S_ccdnum, exists |-> Exists(md, "CALIB_ID")]>>, 0)

\* DecamCalibsParseTask.translate_date(md)
translate_date(md) ==
    IF Exists(md, "DATE-OBS")
    THEN LET found == ReSearchDate(md["DATE-OBS"].s)
         IN IF found # <<>>
            THEN Effects(Return(PyStr(found[1])), <<>>, <<>>, 0)
            ELSE Effects(Return(PyStr(S_unknown)),
                         <<"DATE-OBS does not match format YYYY-MM-DD">>, <<>>, 0)
    ELSE IF Exists(md, "CALIB_ID")
    THEN Effects(translateFromCalibId(S_calibDate, md), <<>>,
                 <<[field |-> S_calibDate, exists |-> Exists(md, "CALIB_ID")]>>, 0)
    ELSE Effects(Return(PyStr(S_unknown)), <<>>, <<>>, 0)

\* translate_filter as it would be with the OBSTYPE test made on the raw card,
\* without strip().lower(): a faulty variant against which the filter
\* precedence is checked.
translate_filter_caseSensitive(md, baseFilter) ==
    IF Exists(md, "FILTER")
    THEN IF Exists(md, "OBSTYPE") /\ Contains(S_zero, md["OBSTYPE"].s)
         THEN Effects(Return(PyStr(S_NONE)), <<>>, <<>>, 0)
         ELSE Effects(Return(PyStr(baseFilter)), <<>>, <<>>, 1)
    ELSE IF Exists(md, "CALIB_ID")
    THEN Effects(translateFromCalibId(S_filter, md), <<>>,
                 <<[field |-> S_filter, exists |-> Exists(md, "CALIB_ID")]>>, 0)
    ELSE Effects(Return(PyStr(S_unknown)), <<>>, <<>>, 0)

\* DecamCalibsParseTask.translate_filter(md); baseFilter is what
\* CalibsParseTask.translate_filter(self, md) returns for this header.
translate_filter(md, baseFilter) ==
    IF Exists(md, "FILTER")
    THEN IF Exists(md, "OBSTYPE") /\ Contains(S_zero, Lower(Strip(md["OBSTYPE"].s)))
         THEN Effects(Return(PyStr(S_NONE)), <<>>, <<>>, 0)
         ELSE Effects(Return(PyStr(baseFilter)), <<>>, <<>>, 1)
    ELSE IF Exists(md, "CALIB_ID")
    THEN Effects(translateFromCalibId(S_filter, md), <<>>,
                 <<[field |-> S_filter, exists |-> Exists(md, "CALIB_ID")]>>, 0)
    ELSE Effects(Return(PyStr(S_unknown)), <<>>, <<>>, 0)

\* ------------------------------------------------------------------------
\* Records (Python dicts): functions from the keys present to their values
\* ------------------------------------------------------------------------
EmptyDict == [k \in {} |-> PyNone]

\* d[key] = v
Put(d, key, v) == [k \in DOMAIN d \cup {key} |-> IF k = key THEN v ELSE d[k]]

\* Lines 31-32: every record gets the path of the file.
SetPath(list, filename) ==
    [k \in 1..Len(list) |-> Put(list[k], "path", PyStr(filename))]

\* CalibHdu as it would be if the default were taken for every record: a
\* faulty variant against which the calib_hdu rule is checked.
CalibHdu_alwaysDefault(item) == PyInt(1)

\* Lines 37-40: item['calib_hdu'] = item['hdu'], 1 on KeyError.
CalibHdu(item) == IF "hdu" \in DOMAIN item THEN item["hdu"] ELSE PyInt(1)

\* Lines 36-40
SetCalibHdu(list) ==
    [k \in 1..Len(list) |-> Put(list[k], "calib_hdu", CalibHdu(list[k]))]

\* FillDate as it would be without the test of line 45, the filename date
\* overwriting every record's date: a faulty variant against which the date
\* fallback is checked.
FillDate_overwrite(list, date) ==
    [k \in 1..Len(list) |-> Put(list[k], "calibDate", PyStr(date))]

\* Lines 44-46: the date of the filename fills the records without a date.
FillDate(list, date) ==
    [k \in 1..Len(list) |->
        IF "calibDate" \notin DOMAIN list[k] \/ list[k]["calibDate"] = PyStr(S_unknown)
        THEN Put(list[k], "calibDate", PyStr(date))
        ELSE list[k]]

\* getInfo as it would be without lines 29-30, an empty extension list staying
\* empty: a faulty variant against which the single-extension rule is checked.
getInfo_noFallback(filename, basePhu, baseList) ==
    LET list1 == SetPath(baseList, filename)
        found == ReSearchDate(filename)
        list2 == SetCalibHdu(list1)
        list3 == IF found = <<>> THEN list2 ELSE FillDate(list2, found[1])
    IN [phuInfo |-> basePhu, infoList |-> list3]

\* DecamCalibsParseTask.getInfo(filename); basePhu and baseList are what
\* CalibsParseTask.getInfo(self, filename) returns.  When baseList is empty
\* the primary record itself is appended to the list, so the returned
\* primary record and the returned list element are one object.
getInfo(filename, basePhu, baseList) ==
    LET shared == baseList = <<>>
        list0 == IF shared THEN <<basePhu>> ELSE baseList
        list1 == SetPath(list0, filename)
        found == ReSearchDate(filename)
        list2 == SetCalibHdu(list1)
        list3 == IF found = <<>> THEN list2 ELSE FillDate(list2, found[1])
    IN [phuInfo |-> IF shared THEN list3[1] ELSE basePhu, infoList |-> list3]

\* ------------------------------------------------------------------------
\* Destination
\* ------------------------------------------------------------------------
\* SelectTemplate as it would be with the last elif turned into the default
\* branch, no assertion left: a faulty variant against which the fatal
\* dispatch is checked.
SelectTemplate_noAssert(calibType) ==
    IF Contains(S_flat, Lower(calibType)) THEN "cpFlat_filename"
    ELSE IF Contains(PyOr(S_bias, S_zero), Lower(calibType)) THEN "cpBias_filename"
    ELSE "cpIllumcor_filename"

\* Lines 161-168: the template requested for a calibration kind, "none"
\* when the assertion of the last branch fails.
SelectTemplate(calibType) ==
    IF Contains(S_flat, Lower(calibType)) THEN "cpFlat_filename"
    ELSE IF Contains(PyOr(S_bias, S_zero), Lower(calibType)) THEN "cpBias_filename"
    ELSE IF Contains(S_illumcor, Lower(calibType)) THEN "cpIllumcor_filename"
    ELSE "none"

\* Lines 170-172: cut the HDU selector off the path.
StripHdu(raw) ==
    LET c == Find(raw, <<"[">>)
    IN IF c > 0 THEN Prefix(raw, c) ELSE raw

\* DecamCalibsParseTask.getDestination(butler, info, filename); calibType is
\* what self.getCalibType(filename) returns and candidates is what butler.get
\* returns when it is asked.
getDestination(info, calibType, candidates) ==
    LET dataId == Put(Put(info, "ccdnum", PyInt(1)), "calib_hdu", PyInt(1))
        template == SelectTemplate(calibType)
    IN IF template = "none"
       THEN [result |-> Raise("AssertionError"), info |-> dataId, butlerCalls |-> <<>>]
       ELSE [result |-> Return(PyStr(StripHdu(candidates[1]))),
             info |-> dataId,
             butlerCalls |-> <<[template |-> template, dataId |-> dataId,
                                returned |-> candidates]>>]

\* ------------------------------------------------------------------------
\* Inputs
\* ------------------------------------------------------------------------
RECURSIVE Flatten(_)
Flatten(parts) == IF parts = <<>> THEN <<>> ELSE Head(parts) \o Flatten(Tail(parts))

RECURSIVE Join(_)
Join(parts) ==
    IF parts = <<>> THEN <<>>
    ELSE IF Len(parts) = 1 THEN Head(parts)
    ELSE Head(parts) \o <<" ">> \o Join(Tail(parts))

SeqsUpTo(S, n) == UNION {[1..k -> S] : k \in 0..n}

NamePieces ==
    { <<"2","0","1","9","-","0","1","-","0","1">>,
      <<"2","0","2","0","-","0","5","-","1","3">>,
      <<"c","a","l","/">>,
      <<"2","0">> }
Filenames == {Flatten(p) : p \in SeqsUpTo(NamePieces, MaxNamePieces)}

S_realDate == <<"2","0","1","5","-","0","3","-","0","1">>
InfoRecords ==
    { [k \in ks |-> IF k = "hdu" THEN PyInt(2) ELSE PyStr(d)] :
        ks \in SUBSET {"hdu", "calibDate"}, d \in {S_unknown, S_realDate} }
InfoLists == SeqsUpTo(InfoRecords, MaxExt)

Tokens ==
    { <<"c","c","d","n","u","m","=","1","2">>,
      <<"c","a","l","i","b","D","a","t","e","=","2","0","1","9","-","0","1","-","0","1">>,
      <<"f","i","l","t","e","r","=","z">>,
      <<"f","i","l","t","e","r","=","g">> }
CalibIds == {Join(p) : p \in SeqsUpTo(Tokens, MaxTokens)}

Absent == [t |-> "absent", i |-> 0, s |-> <<>>, l |-> <<>>]
CcdnumCards == {Absent, PyInt(7), PyList(<<7>>), PyList(<<>>), PyList(<<7, 8>>)}
DateObsCards ==
    {Absent, PyStr(<<"2","0","2","0","-","0","5","-","1","3","T","0","0",":","0","0">>),
     PyStr(<<"g","a","r","b","a","g","e">>)}
FilterCards == {Absent, PyStr(<<"g">>)}
ObstypeCards ==
    {Absent, PyStr(<<"Z","e","r","o">>), PyStr(<<" ","Z","E","R","O"," ">>),
     PyStr(<<"d","o","m","e"," ","f","l","a","t">>)}
CalibIdCards == {Absent} \cup {PyStr(c) : c \in CalibIds}

CardNames == {"CCDNUM", "DATE-OBS", "FILTER", "OBSTYPE", "CALIB_ID"}
MkHeader(cards) == [k \in {n \in CardNames : cards[n] # Absent} |-> cards[k]]
Headers ==
    { MkHeader([n \in CardNames |->
                   CASE n = "CCDNUM" -> c
                     [] n = "DATE-OBS" -> d
                     [] n = "FILTER" -> f
                     [] n = "OBSTYPE" -> o
                     [] n = "CALIB_ID" -> id]) :
        c \in CcdnumCards, d \in DateObsCards, f \in FilterCards,
        o \in ObstypeCards, id \in CalibIdCards }

BaseFilters == { <<"g">>, <<"r">> }

KindPieces ==
    { <<"f","l","a","t">>, <<"B","i","a","s">>, <<"z","e","r","o">>,
      <<"i","l","l","u","m","c","o","r">>, <<"b","a","r">>, <<"D","o","m","e"," ">> }
Kinds == {Flatten(p) : p \in SeqsUpTo(KindPieces, MaxKindPieces)}

Paths ==
    { <<"/","a","/","f",".","f","i","t","s","[","1","]">>,
      <<"/","a","/","f",".","f","i","t","s">>,
      <<"[","1","]">>,
      <<"f","[","1","]","[","2","]">>,
      <<>> }
Candidates == SeqsUpTo(Paths, MaxCands) \ {<<>>}

DataIds ==
    { [k \in {"filter"} |-> PyStr(<<"g">>)],
      [k \in {"filter", "ccdnum", "calib_hdu"} |->
          IF k = "filter" THEN PyStr(<<"g">>) ELSE PyInt(5)] }

\* ------------------------------------------------------------------------
\* State
\* ------------------------------------------------------------------------
VARIABLES
    pc,            \* "idle" before the call, "returned" after it
    call,          \* the method called
    filename,      \* getInfo: the filename argument
    basePhu,       \* getInfo: primary record of the base parser
    baseList,      \* getInfo: extension records of the base parser
    phuInfo,       \* getInfo: returned primary record
    infoList,      \* getInfo: returned list of records
    md,            \* translate_*: the header argument
    baseFilter,    \* translate_filter: answer of the base translator
    calibType,     \* getDestination: answer of getCalibType(filename)
    info,          \* getDestination: the info argument as passed
    infoAfter,     \* getDestination: the same dict after the call
    result,        \* translate_*, getDestination: how the call ended
    warnings,      \* messages given to self.log.warn
    calibIdCalls,  \* calls made to _translateFromCalibId
    baseCalls,     \* calls made to CalibsParseTask.translate_filter
    butlerCalls    \* calls made to butler.get

vars == <<pc, call, filename, basePhu, baseList, phuInfo, infoList, md, baseFilter,
          calibType, info, infoAfter, result, warnings, calibIdCalls, baseCalls, butlerCalls>>

Init ==
    /\ pc = "idle"
    /\ call = "none"
    /\ filename = <<>>
    /\ basePhu = EmptyDict
    /\ baseList = <<>>
    /\ phuInfo = EmptyDict
    /\ infoList = <<>>
    /\ md = EmptyDict
    /\ baseFilter = <<>>
    /\ calibType = <<>>
    /\ info = EmptyDict
    /\ infoAfter = EmptyDict
    /\ result = NoResult
    /\ warnings = <<>>
    /\ calibIdCalls = <<>>
    /\ baseCalls = 0
    /\ butlerCalls = <<>>

GetInfo ==
    /\ pc = "idle"
    /\ \E f \in Filenames, phu \in InfoRecords, list \in InfoLists :
        /\ filename' = f
        /\ basePhu' = phu
        /\ baseList' = list
        /\ phuInfo' = getInfo(f, phu, list).phuInfo
        /\ infoList' = getInfo(f, phu, list).infoList
    /\ pc' = "returned"
    /\ call' = "getInfo"
    /\ UNCHANGED <<md, baseFilter, calibType, info, infoAfter, result, warnings, calibIdCalls,
                   baseCalls, butlerCalls>>

\* The part of a translator call that is the same for the three translators.
Translated(name, header, eff) ==
    /\ pc' = "returned"
    /\ call' = name
    /\ md' = header
    /\ result' = eff.result
    /\ warnings' = eff.warnings
    /\ calibIdCalls' = eff.calibIdCalls
    /\ baseCalls' = eff.baseCalls
    /\ UNCHANGED <<filename, basePhu, baseList, phuInfo, infoList, calibType, info,
                   infoAfter, butlerCalls>>

TranslateCcdnum ==
    /\ pc = "idle"
    /\ \E h \in Headers :
        /\ Translated("translate_ccdnum", h, translate_ccdnum(h))
        /\ UNCHANGED baseFilter

TranslateDate ==
    /\ pc = "idle"
    /\ \E h \in Headers :
        /\ Translated("translate_date", h, translate_date(h))
        /\ UNCHANGED baseFilter

TranslateFilter ==
    /\ pc = "idle"
    /\ \E h \in Headers, b \in BaseFilters :
        /\ Translated("translate_filter", h, translate_filter(h, b))
        /\ baseFilter' = b

GetDestination ==
    /\ pc = "idle"
    /\ \E d \in DataIds, kind \in Kinds, cands \in Candidates :
        LET out == getDestination(d, kind, cands)
        IN /\ calibType' = kind
           /\ info' = d
           /\ infoAfter' = out.info
           /\ result' = out.result
           /\ butlerCalls' = out.butlerCalls
    /\ pc' = "returned"
    /\ call' = "getDestination"
    /\ UNCHANGED <<filename, basePhu, baseList, phuInfo, infoList, md, baseFilter,
                   warnings, calibIdCalls, baseCalls>>

Next ==
    \/ GetInfo
    \/ TranslateCcdnum
    \/ TranslateDate
    \/ TranslateFilter
    \/ GetDestination

Spec == Init /\ [][Next]_vars

\* ------------------------------------------------------------------------
\* Vocabulary of the properties
\* ------------------------------------------------------------------------
Done(name) == pc = "returned" /\ call = name

\* the records getInfo works on: the extension records, or the primary
\* record alone when there are none
SourceRecords == IF baseList = <<>> THEN <<basePhu>> ELSE baseList

\* a string of the form dddd-dd-dd
IsDateText(str) ==
    /\ Len(str) = 10
    /\ \A k \in 1..10 : IF k \in {5, 8} THEN str[k] = "-" ELSE str[k] \in Digits

DateOffsets(str) == {k \in 1..(Len(str) - 9) : IsDateText(SubSeq(str, k, k + 9))}
HasDate(str) == DateOffsets(str) # {}
FirstDate(str) ==
    LET k == CHOOSE a \in DateOffsets(str) : \A b \in DateOffsets(str) : a <= b
    IN SubSeq(str, k, k + 9)

NoRealDate(rec) == "calibDate" \notin DOMAIN rec \/ rec["calibDate"] = PyStr(S_unknown)

\* the whitespace-delimited tokens of a packed identifier, as <<first, last>>
TokenSpans(data) ==
    {sp \in (1..Len(data)) \X (1..Len(data)) :
        /\ sp[1] <= sp[2]
        /\ \A k \in sp[1]..sp[2] : data[k] \notin Whitespace
        /\ sp[1] = 1 \/ data[sp[1] - 1] \in Whitespace
        /\ sp[2] = Len(data) \/ data[sp[2] + 1] \in Whitespace}

\* the values of the tokens field=value of a packed identifier
TokenValues(field, data) ==
    {SubSeq(data, sp[1] + Len(field) + 1, sp[2]) :
        sp \in {t \in TokenSpans(data) :
                    /\ t[2] - t[1] > Len(field)
                    /\ SubSeq(data, t[1], t[1] + Len(field)) = field \o <<"=">>}}

DigitValue(c) == CHOOSE n \in 0..9 : <<"0","1","2","3","4","5","6","7","8","9">>[n + 1] = c

RECURSIVE ParseInt(_)
ParseInt(str) ==
    IF str = <<>> THEN 0
    ELSE 10 * ParseInt(SubSeq(str, 1, Len(str) - 1)) + DigitValue(str[Len(str)])

\* the template a calibration kind is meant to select
IntendedTemplate(kind) ==
    IF Contains(S_flat, Lower(kind)) THEN "cpFlat_filename"
    ELSE IF Contains(S_bias, Lower(kind)) \/ Contains(S_zero, Lower(kind))
    THEN "cpBias_filename"
    ELSE IF Contains(S_illumcor, Lower(kind)) THEN "cpIllumcor_filename"
    ELSE "none"

\* the part of a path before its first "["
BeforeBracket(raw) ==
    LET at == {k \in 1..Len(raw) : raw[k] = "["}
    IN SubSeq(raw, 1, (CHOOSE a \in at : \A b \in at : a <= b) - 1)

\* ------------------------------------------------------------------------
\* Properties
\* ------------------------------------------------------------------------

\* C1: getDestination requests the template of the calibration kind, compared
\* case-insensitively: "flat" requests cpFlat_filename, "bias" or "zero"
\* requests cpBias_filename, "illumcor" requests cpIllumcor_filename, and the
\* first element of the butler's answer is the path that is used.
C1_TemplateByKind ==
    (Done("getDestination") /\ IntendedTemplate(calibType) # "none") =>
        /\ Len(butlerCalls) = 1
        /\ butlerCalls[1].template = IntendedTemplate(calibType)
        /\ result = Return(PyStr(StripHdu(butlerCalls[1].returned[1])))

\* C2: a calibration kind whose lower-cased form contains none of "flat",
\* "bias", "zero", "illumcor" ends getDestination with a failed assertion: no
\* template is looked up and no path is returned.
C2_UnknownKindIsFatal ==
    (Done("getDestination") /\ IntendedTemplate(calibType) = "none") =>
        /\ result = Raise("AssertionError")
        /\ butlerCalls = <<>>
        /\ result.value = PyNone

C2_Witness ==
    /\ Done("getDestination")
    /\ calibType = <<"b","a","r">>
    /\ result.kind = "raise"

\* C3: the path getDestination returns is the looked-up path cut at its first
\* "[": with a "[" in the looked-up path the result is the prefix before the
\* first "[" and holds no "[", without one it is the looked-up path.
C3_TruncatedAtBracket ==
    (Done("getDestination") /\ result.kind = "return") =>
        LET raw == butlerCalls[1].returned[1]
        IN IF Contains(<<"[">>, raw)
           THEN /\ result.value = PyStr(BeforeBracket(raw))
                /\ ~Contains(<<"[">>, result.value.s)
           ELSE result.value = PyStr(raw)

\* C4: with a dddd-dd-dd substring in the filename, every record of getInfo
\* whose calibDate was absent or "unknown" has the first such substring as
\* calibDate and every record with a real calibDate keeps it; without such a
\* substring no record's calibDate changes.
C4_FilenameDateFallback ==
    Done("getInfo") =>
        /\ Len(infoList) = Len(SourceRecords)
        /\ \A k \in 1..Len(SourceRecords) :
            LET before == SourceRecords[k]
                after == infoList[k]
            IN IF HasDate(filename)
               THEN /\ "calibDate" \in DOMAIN after
                    /\ after["calibDate"] =
                         IF NoRealDate(before) THEN PyStr(FirstDate(filename))
                         ELSE before["calibDate"]
               ELSE /\ ("calibDate" \in DOMAIN after) = ("calibDate" \in DOMAIN before)
                    /\ "calibDate" \in DOMAIN before =>
                           after["calibDate"] = before["calibDate"]

C4_Witness ==
    /\ Done("getInfo")
    /\ HasDate(filename)
    /\ \E k, j \in 1..Len(SourceRecords) :
        /\ NoRealDate(SourceRecords[k])
        /\ infoList[k]["calibDate"] = PyStr(FirstDate(filename))
        /\ ~NoRealDate(SourceRecords[j])
        /\ infoList[j]["calibDate"] = PyStr(S_realDate)

\* C5: every record of the list getInfo returns has a calib_hdu, whether or
\* not the filename has a date: the record's own hdu when it has one, 1 when
\* it has none.
C5_CalibHduAlwaysSet ==
    Done("getInfo") =>
        \A k \in 1..Len(infoList) :
            /\ "calib_hdu" \in DOMAIN infoList[k]
            /\ infoList[k]["calib_hdu"] =
                 IF "hdu" \in DOMAIN SourceRecords[k] THEN SourceRecords[k]["hdu"]
                 ELSE PyInt(1)
            /\ ("hdu" \in DOMAIN infoList[k]) = ("hdu" \in DOMAIN SourceRecords[k])

C5_Witness ==
    /\ Done("getInfo")
    /\ ~HasDate(filename)
    /\ \E k, j \in 1..Len(infoList) :
        /\ "hdu" \notin DOMAIN SourceRecords[k]
        /\ infoList[k]["calib_hdu"] = PyInt(1)
        /\ "hdu" \in DOMAIN SourceRecords[j]
        /\ infoList[j]["calib_hdu"] = PyInt(2)

\* C6, as stated: with an empty extension list from the base parser, getInfo
\* returns exactly one record, equal to the primary record's fields plus path
\* set to the filename.
C6_SoleRecordIsPrimaryPlusPath ==
    (Done("getInfo") /\ baseList = <<>>) =>
        /\ Len(infoList) = 1
        /\ infoList[1] = Put(basePhu, "path", PyStr(filename))

\* C6, as amended: with an empty extension list from the base parser, getInfo
\* returns exactly one record, equal to the primary record's fields plus path
\* set to the filename, plus calib_hdu set to the primary record's hdu (1
\* when it has none), and with calibDate set to the first dddd-dd-dd
\* substring of the filename when there is one and the primary record's
\* calibDate is absent or "unknown".
C6_SoleRecordFromPrimary ==
    (Done("getInfo") /\ baseList = <<>>) =>
        LET withPath == Put(basePhu, "path", PyStr(filename))
            withHdu == Put(withPath, "calib_hdu",
                           IF "hdu" \in DOMAIN basePhu THEN basePhu["hdu"] ELSE PyInt(1))
            expected == IF HasDate(filename) /\ NoRealDate(basePhu)
                        THEN Put(withHdu, "calibDate", PyStr(FirstDate(filename)))
                        ELSE withHdu
        IN /\ Len(infoList) = 1
           /\ infoList[1] = expected

C6_Witness ==
    /\ Done("getInfo")
    /\ baseList = <<>>
    /\ Len(infoList) = 1
    /\ HasDate(filename)
    /\ "calibDate" \in DOMAIN basePhu
    /\ NoRealDate(basePhu)
    /\ infoList[1]["path"] = PyStr(filename)
    /\ infoList[1]["calibDate"] = PyStr(FirstDate(filename))

\* C7: translate_ccdnum gives one detector number as an integer: a scalar
\* CCDNUM is returned as it is, of a sequence the first element, null for an
\* empty sequence, and without CCDNUM the number of the ccdnum token of
\* CALIB_ID ("ccdnum=12" gives 12).
C7_CcdnumIsOneInteger ==
    Done("translate_ccdnum") =>
        IF Exists(md, "CCDNUM")
        THEN result = Return(IF md["CCDNUM"].t # "list" THEN md["CCDNUM"]
                             ELSE IF md["CCDNUM"].l = <<>> THEN PyNone
                             ELSE PyInt(md["CCDNUM"].l[1]))
        ELSE (Exists(md, "CALIB_ID") /\ TokenValues(S_ccdnum, md["CALIB_ID"].s) # {}) =>
                /\ result.kind = "return"
                /\ result.value \in
                     {PyInt(ParseInt(v)) : v \in TokenValues(S_ccdnum, md["CALIB_ID"].s)}

\* C8: translate_date gives the first dddd-dd-dd substring of DATE-OBS when
\* the card exists, "unknown" with a warning when it has none, and never
\* consults CALIB_ID then; without DATE-OBS it gives the value of the
\* calibDate token of CALIB_ID; without both it gives "unknown".  A malformed
\* or absent DATE-OBS never makes the call fail.
C8_DatePrecedence ==
    Done("translate_date") =>
        /\ result.kind = "return"
        /\ IF Exists(md, "DATE-OBS")
           THEN /\ calibIdCalls = <<>>
                /\ IF HasDate(md["DATE-OBS"].s)
                   THEN /\ result.value = PyStr(FirstDate(md["DATE-OBS"].s))
                        /\ warnings = <<>>
                   ELSE /\ result.value = PyStr(S_unknown)
                        /\ Len(warnings) = 1
           ELSE IF Exists(md, "CALIB_ID")
           THEN result.value \in
                    {PyStr(v) : v \in TokenValues(S_calibDate, md["CALIB_ID"].s)}
           ELSE result.value = PyStr(S_unknown)

C10_HelperOnlyWithCalibId ==
    \A k \in 1..Len(calibIdCalls) : calibIdCalls[k].exists

====
